---- MODULE Spec2Model ----
(***************************************************************************)
(* Prometheus: conversational candidate search.                            *)
(*                                                                         *)
(* The model follows the code the repository shows for the search core:   *)
(* the ProgressiveFilter class, the transferable map, the experience      *)
(* mapping and the tenure rules printed in the two                         *)
(* README files (src/unnamed/part_000, src/unnamed/part_001).  The Python *)
(* modules themselves (progressive_filter.py, semantic_engine.py,         *)
(* langgraph_agent.py) are not among the source files; what the README    *)
(* code leaves open (hard filters, requirement merging, reset, the floor   *)
(* of the pool) is modelled from the specification.                       *)
(***************************************************************************)
EXTENDS Integers, Sequences, FiniteSets, TLC

VARIABLES
    store,        \* the ConversationState: the state of the ProgressiveFilter
    out,          \* what the last step of a filter / reset / tenure call returned
    resetRun,     \* the number of reset calls in a row (0, 1, 2 = two or more)
    floored,      \* the candidates that scored at or below the floor since the last reset
    searches,     \* the filter_candidates calls under way, statement by statement
    begun,        \* the number of filter_candidates calls begun so far
    agent,        \* the AgentLoop: state, session, tool cycles of the turn, pending tool
    work_history, \* input of a direct TenureAnalyzer.analyze call
    tenureOut,    \* its result
    experience_years, \* input of the experience level mapping, in tenths of a year
    levelOut,     \* its result
    route,        \* chat page: the route the browser is on
    conversation, \* chat page: the conversation state (null until loaded)
    isLoading,    \* chat page: the isLoading state
    calls,        \* chat page: the sendMessage / generateAIResponse calls under way
    load,         \* chat page: the loadConversation call of the mount effect
    db,           \* the messages of the conversation's row in the conversations table
    table,        \* dashboard: the rows of the conversations table it creates
    dash,         \* dashboard: the handleSendMessage calls under way
    form,         \* questionnaire: component, currentStep, data, onComplete calls
    signin,       \* sign-in page: the state of the page and of handleSubmit
    profiles,     \* the user_profiles and company_profiles rows
    register      \* register page: the state of the page and of its handleSubmit

\* the variables of the experience level mapping
levelVars == <<experience_years, levelOut>>

\* the variables of the chat page
chatVars == <<route, conversation, isLoading, calls, load, db>>

\* the variables of the dashboard, the questionnaires and the sign-in page
pageVars == <<table, dash, form, signin, profiles, register>>

\* the variables of the search core
coreVars ==
    <<store, out, resetRun, floored, searches, begun, agent, work_history, tenureOut,
      levelVars>>

vars == <<store, out, resetRun, floored, searches, begun, agent, work_history,
          tenureOut, levelVars, chatVars, pageVars>>

(***************************************************************************)
(* Bounds of the model.                                                    *)
(***************************************************************************)
\* filter_candidates calls under way at one time
MaxSearches == 2

\* filter_candidates calls begun in one run
MaxTurns == 3
\* jobs in a work history handed to the tenure analyzer
MaxJobs == 5
\* REASON <-> TOOL_CALL cycles of one user turn that are counted; the counter
\* stays at the bound when the cycles go on
MaxCycles == 6
\* years of experience handed to the experience level mapping
MaxYears == 10
\* messages the user sends on the chat page
MaxSends == 3
\* handleSendMessage calls of the dashboard
MaxDash == 3
\* onComplete calls of a questionnaire that are counted
MaxCompletes == 2
\* messages the user sends on the chat page while a dashboard writes to the
\* same conversation
SharedSends == 1
\* handleSendMessage calls of a dashboard that writes to the conversation the
\* chat page shows
SharedDash == 2

(***************************************************************************)
(* Values.                                                                 *)
(***************************************************************************)
Null == "null"

Sessions == {"sA", "sB"}

Levels == {"junior", "mid", "senior"}

\* A text is a sequence of characters, so that "contains" is a real substring test.
NoText == << >>
Berlin == <<"b", "e", "r", "l", "i", "n">>
Madrid == <<"m", "a", "d", "r", "i", "d">>
Ber == <<"b", "e", "r">>

IsSubstring(sub, s) ==
    \E i \in 0..(Len(s) - Len(sub)) : SubSeq(s, i + 1, i + Len(sub)) = sub

Min(a, b) == IF a <= b THEN a ELSE b

\* the element of a one-element set: {F(x) : x \in {e}} computes e once
TheOne(S) == CHOOSE x \in S : TRUE

(***************************************************************************)
(* Experience level mapping (README "Experience Level Mapping").           *)
(***************************************************************************)
\* experience_years is a number, not only an integer: the model holds it in
\* tenths of a year
YearsScale == 10
Years(n) == n * YearsScale

\* Years < 3: junior, Years 3-6: mid, Years >= 7: senior; a value none of the
\* three rows covers gets no level
ExperienceLevel(years) ==
    CASE years < Years(3) -> "junior"
      [] years >= Years(3) /\ years <= Years(6) -> "mid"
      [] years >= Years(7) -> "senior"
      [] OTHER -> Null

(***************************************************************************)
(* The candidate universe: the profile store's content, immutable.         *)
(* A job is [months, ongoing].                                             *)
(***************************************************************************)
Job(m, o) == [months |-> m, ongoing |-> o]

CandidateIds == {"c1", "c2", "c3", "c4"}

CandidateTable == [id \in CandidateIds |->
    CASE id = "c1" ->
           [id |-> "c1", skills |-> {"react", "typescript"}, experience_years |-> Years(8),
            availability |-> "full-time", location |-> Berlin,
            work_history |-> <<Job(48, FALSE), Job(40, FALSE), Job(37, TRUE)>>]
      [] id = "c2" ->
           [id |-> "c2", skills |-> {"vue.js"}, experience_years |-> Years(4),
            availability |-> "freelance", location |-> Berlin,
            work_history |-> <<Job(6, FALSE), Job(8, FALSE), Job(11, FALSE), Job(5, TRUE)>>]
      [] id = "c3" ->
           [id |-> "c3", skills |-> {"react"}, experience_years |-> Years(1),
            availability |-> "freelance", location |-> Madrid,
            work_history |-> <<Job(6, TRUE)>>]
      [] id = "c4" ->
           [id |-> "c4", skills |-> {"python"}, experience_years |-> Years(7),
            availability |-> "any", location |-> Madrid,
            work_history |-> <<Job(36, FALSE), Job(36, FALSE), Job(36, FALSE)>>]]

Candidate(id) == CandidateTable[id]

CandidateLevel(id) == ExperienceLevel(Candidate(id).experience_years)

(***************************************************************************)
(* RequirementFragment: what the extractor returns for one query.          *)
(***************************************************************************)
Fragment(sk, lv, av, loc) ==
    [skills |-> sk, experience_level |-> lv, availability |-> av, location |-> loc]

EmptyFragment == Fragment({}, Null, Null, NoText)

\* The queries of the model: four that the extractor understands, the empty
\* query and a malformed one.
EmptyQuery == ""
MalformedQuery == "}{"
Queries ==
    {"react", "mid-level typescript", "senior only", "freelance in ber",
     EmptyQuery, MalformedQuery}

\* ExtractionDegraded: nothing can be extracted from the query
ExtractionDegraded(query) == query \in {EmptyQuery, MalformedQuery}

\* faulty variant of _extract_requirements: a query that cannot be parsed is
\* taken as the name of a skill
_extract_literal(query) ==
    CASE query = "react" -> Fragment({"react"}, Null, Null, NoText)
      [] query = "mid-level typescript" -> Fragment({"typescript"}, "mid", Null, NoText)
      [] query = "senior only" -> Fragment({}, "senior", Null, NoText)
      [] query = "freelance in ber" -> Fragment({}, Null, "freelance", Ber)
      [] query = EmptyQuery -> EmptyFragment
      [] OTHER -> Fragment({query}, Null, Null, NoText)

\* new_reqs = self._extract_requirements(query); an extraction failure yields
\* the empty fragment
_extract_requirements(query) ==
    CASE query = "react" -> Fragment({"react"}, Null, Null, NoText)
      [] query = "mid-level typescript" -> Fragment({"typescript"}, "mid", Null, NoText)
      [] query = "senior only" -> Fragment({}, "senior", Null, NoText)
      [] query = "freelance in ber" -> Fragment({}, Null, "freelance", Ber)
      [] OTHER -> EmptyFragment

(***************************************************************************)
(* Effective requirement set.                                              *)
(* README filter_candidates step 3 combines the skills of every turn of    *)
(* the history; the scalar fields take the most recent non-null value.     *)
(***************************************************************************)
\* faulty variant of all_skills: only the skills of the latest turn
all_skills_latest(history) ==
    IF history = << >> THEN {} ELSE history[Len(history)].skills

\* all_skills = []; for turn in self.conversation_history:
\*     all_skills.extend(turn['skills'])
RECURSIVE all_skills(_)
all_skills(history) ==
    IF history = << >> THEN {}
    ELSE all_skills(SubSeq(history, 1, Len(history) - 1)) \cup history[Len(history)].skills

LaterValue(old, new, none) == IF new # none THEN new ELSE old

\* faulty variant of MergeScalars: the first value set is kept
MergeScalarsFirstWins(acc, f) ==
    [experience_level |-> LaterValue(f.experience_level, acc.experience_level, Null),
     availability |-> LaterValue(f.availability, acc.availability, Null),
     location |-> LaterValue(f.location, acc.location, NoText)]

\* a later fragment overrides an earlier one where it sets the field
MergeScalars(acc, f) ==
    [experience_level |-> LaterValue(acc.experience_level, f.experience_level, Null),
     availability |-> LaterValue(acc.availability, f.availability, Null),
     location |-> LaterValue(acc.location, f.location, NoText)]

NoScalars == [experience_level |-> Null, availability |-> Null, location |-> NoText]

RECURSIVE FoldScalars(_, _)
FoldScalars(history, acc) ==
    IF history = << >> THEN acc
    ELSE FoldScalars(Tail(history), MergeScalars(acc, Head(history)))

EffectiveRequirements(history) ==
    LET sc == FoldScalars(history, NoScalars)
    IN  Fragment(all_skills(history), sc.experience_level, sc.availability, sc.location)

(***************************************************************************)
(* Hard (elimination) filters of the narrowing step.                       *)
(***************************************************************************)
LevelMatches(level, required) == required = Null \/ level = required

AvailabilityMatches(avail, required) ==
    required = Null \/ required = "any" \/ avail = "any" \/ avail = required

LocationMatches(loc, required) == required = NoText \/ IsSubstring(required, loc)

\* faulty variant of PassesHardFilters: the experience level does not eliminate
PassesWithoutLevel(id, req) ==
    /\ AvailabilityMatches(Candidate(id).availability, req.availability)
    /\ LocationMatches(Candidate(id).location, req.location)

PassesHardFilters(id, req) ==
    /\ LevelMatches(CandidateLevel(id), req.experience_level)
    /\ AvailabilityMatches(Candidate(id).availability, req.availability)
    /\ LocationMatches(Candidate(id).location, req.location)

\* _semantic_match, first half: the hard filters narrow the pool
Narrow(pool, req) == {id \in pool : PassesHardFilters(id, req)}

(***************************************************************************)
(* SemanticMatchingEngine.                                                 *)
(***************************************************************************)
\* README "Transferable Map": has -> required (+bonus points)
TransferabilityMap ==
    { [has |-> "vue.js", required |-> "react", bonus |-> 20],
      [has |-> "angular", required |-> "react", bonus |-> 20],
      [has |-> "javascript", required |-> "typescript", bonus |-> 15],
      [has |-> "node.js", required |-> "express", bonus |-> 15] }

matched_skills(skills, required) == required \cap skills

\* the skills of the candidate that transfer to the required skill r
TransferSources(skills, r) ==
    {m.has : m \in {x \in TransferabilityMap : x.required = r /\ x.has \in skills}}

MinScoreFloor == 0

\* the floor of the pool.  A candidate that holds a required skill, or a
\* skill that transfers to one, scores above the floor (direct_matches or
\* count_transferable is positive); one with neither is at the floor and
\* leaves the pool ("with React" narrows the developers to the React
\* developers).  A requirement set that names no skill leaves every
\* candidate above the floor ("I need a developer" returns the developers).
\* The number itself is not part of the model: the README's calculation and
\* the scores and bonus points the README prints for its examples disagree,
\* and the engine's code is not among the sources.
ScoresAboveFloor(skills, req) ==
    \/ req.skills = {}
    \/ matched_skills(skills, req.skills) # {}
    \/ \E r \in req.skills \ skills : TransferSources(skills, r) # {}

\* _semantic_match, second half: every candidate of the narrowed pool is
\* scored
Scores(narrowed, req) ==
    {[candidate_id |-> id, above_floor |-> ScoresAboveFloor(Candidate(id).skills, req)] :
        id \in narrowed}

\* those that score above the floor are the matches
AboveFloor(scores) ==
    {r.candidate_id : r \in {x \in scores : x.above_floor}}

(***************************************************************************)
(* TenureAnalyzer (README "Tenure Analysis").                              *)
(***************************************************************************)
TENURE_BASE == 70
SHORT_STINT_PENALTY == 15
LONG_TENURE_BONUS == 10
SHORT_MONTHS == 12
LONG_MONTHS == 36
STABLE_MIN == 80
MODERATE_MIN == 60

\* Jobs < 12 months
IsShort(job) == job.months < SHORT_MONTHS

\* Jobs > 3 years
IsLong(job) == job.months > LONG_MONTHS

\* Jobs < 12 months: each of them, the ongoing one and the only one included
ShortStints(history) == {i \in DOMAIN history : IsShort(history[i])}

LongTenures(history) == {i \in DOMAIN history : IsLong(history[i])}

\* faulty variant of TenureRaw: long tenures earn nothing
TenureRawNoBonus(history) ==
    TENURE_BASE - SHORT_STINT_PENALTY * Cardinality(ShortStints(history))

TenureRaw(history) ==
    TENURE_BASE - SHORT_STINT_PENALTY * Cardinality(ShortStints(history))
                + LONG_TENURE_BONUS * Cardinality(LongTenures(history))

\* the score is the sum as it comes out: nothing clamps it
TenureScore(history) == TenureRaw(history)

\* Labels: stable (>= 80), moderate (60-79), high_risk (< 60)
TenureLabel(score) ==
    IF score >= STABLE_MIN THEN "stable"
    ELSE IF score >= MODERATE_MIN THEN "moderate"
    ELSE "high_risk"

analyze(history) ==
    [done |-> TRUE, score |-> TenureScore(history),
     label |-> TenureLabel(TenureScore(history))]

NoTenure == [done |-> FALSE, score |-> 0, label |-> Null]

\* the work histories the analyzer is checked on: up to MaxJobs finished jobs,
\* the last of which may be the ongoing one
JobMonths == {11, 12, 36, 37}

RECURSIVE FinishedJobs(_)
FinishedJobs(n) ==
    IF n = 0 THEN {<< >>}
    ELSE {Append(h, Job(m, FALSE)) : h \in FinishedJobs(n - 1), m \in JobMonths}

WorkHistories ==
    UNION { FinishedJobs(n) : n \in 0..MaxJobs }
      \cup UNION { {Append(h, Job(m, TRUE)) : h \in FinishedJobs(n - 1), m \in JobMonths} :
                     n \in 1..MaxJobs }

AnalyzeCall ==
    /\ ~tenureOut.done
    /\ tenureOut' = analyze(work_history)
    /\ UNCHANGED work_history

(***************************************************************************)
(* ProgressiveFilter: the one filter every request is served from.  POST   *)
(* /api/agent/search carries a query and reset_conversation, the tools     *)
(* take no session id; the session of a call is the caller it came from.   *)
(***************************************************************************)
\* ProgressiveFilter.__init__: no query, no pool, no database yet (loaded:
\* the candidates of the profile store have been read into all_candidates)
__init__ ==
    [loaded |-> FALSE, conversation_history |-> << >>,
     current_candidates |-> {}, all_candidates |-> {}]

\* what list_candidates() of the profile store answers when the candidates
\* are read: nothing, or the candidates of the table
Databases == {{}, CandidateIds}

\* the filter once the store's candidates are its database
FreshState(database) ==
    [__init__ EXCEPT !.loaded = TRUE, !.all_candidates = database]

\* faulty variant of ResetState: the narrowed pool survives the reset
ResetKeepsPool(st) == [st EXCEPT !.conversation_history = << >>]

\* reset: full universe, empty history
ResetState(st) ==
    [st EXCEPT !.conversation_history = << >>,
               !.current_candidates = st.all_candidates]

\* the first query reads the candidates; reset_conversation: the state is
\* reset
StartState(st, reset, database) ==
    IF ~st.loaded THEN FreshState(database)
    ELSE IF reset THEN ResetState(st)
    ELSE st

\* pool = self.current_candidates or self.all_candidates
StartPool(st) ==
    IF st.current_candidates # {} THEN st.current_candidates ELSE st.all_candidates

\* self.conversation_history.append(self._extract_requirements(query))
Appended(st, query) ==
    [st EXCEPT !.conversation_history = Append(@, _extract_requirements(query))]

\* what _semantic_match answers for a narrowed pool and its scores: the
\* matches are the candidates above the floor
MatchOf(narrowed, scores) ==
    [narrowed |-> narrowed, scores |-> scores, matches |-> AboveFloor(scores)]

\* _semantic_match(pool, all_skills): the pool is narrowed and scored
_semantic_match(pool, req) ==
    TheOne({ MatchOf(narrowed, scores) :
                narrowed \in {Narrow(pool, req)},
                scores \in {Scores(Narrow(pool, req), req)} })

\* step 5: self.current_candidates = matches
Stored(st, matches) == [st EXCEPT !.current_candidates = matches]

\* the queries of the callers of the inbound operations
AgentQueries == {"react", "senior only"}

\* what the step of a filter call just taken returned to its caller; none
\* when the step returned nothing
NoOut ==
    [kind |-> "none", session |-> Null, reset |-> FALSE, turn |-> 0,
     prev_pool |-> {}, start_pool |-> {}, narrowed |-> {}, matches |-> {},
     requirements |-> EmptyFragment, pool_size_before |-> 0,
     exhausted |-> FALSE, error |-> Null, degraded |-> FALSE,
     call |-> "none", scores |-> {}, tenure |-> NoTenure]

\* a search call under way: the statement it is at, its caller, its
\* arguments and its locals (the query is not used after the fragment is
\* appended)
NoSearch ==
    [pc |-> "idle", session |-> Null, query |-> "", reset |-> FALSE,
     degraded |-> FALSE, prev_pool |-> {}, history_len |-> 0,
     requirements |-> EmptyFragment, pool |-> {}]

NewSearch(s, query, reset) ==
    [NoSearch EXCEPT !.pc = "extract", !.session = s, !.query = query, !.reset = reset]

\* the call after self.conversation_history.append(new_reqs)
AppendedCall(c) ==
    [c EXCEPT !.pc = "combine", !.query = "",
              !.degraded = ExtractionDegraded(c.query)]

\* the call after the loop over self.conversation_history, run on the
\* history as the state st holds it at that moment
CombinedCall(c, st) ==
    [c EXCEPT !.pc = "pool",
              !.history_len = Len(st.conversation_history),
              !.requirements = EffectiveRequirements(st.conversation_history)]

\* the call after pool = self.current_candidates or self.all_candidates,
\* read from the state st as it is at that moment
PoolCall(c, st) ==
    [c EXCEPT !.pc = "match",
              !.prev_pool = st.current_candidates,
              !.pool = StartPool(st)]

\* the response of a call whose _semantic_match returned m; conversation_turn
\* is the number of queries of the history the call filtered on
Response(c, m) ==
    [kind |-> "filter", session |-> c.session, reset |-> c.reset,
     turn |-> c.history_len,
     prev_pool |-> c.prev_pool,
     start_pool |-> c.pool,
     narrowed |-> m.narrowed,
     matches |-> m.matches,
     requirements |-> c.requirements,
     pool_size_before |-> Cardinality(c.pool),
     exhausted |-> (m.narrowed = {}),
     error |-> Null,
     degraded |-> c.degraded,
     call |-> "search",
     scores |-> m.scores,
     tenure |-> NoTenure]

\* the call raised: the exception goes to the caller
Failure(c, error) ==
    [NoOut EXCEPT !.kind = "failed", !.session = c.session, !.call = "search",
                  !.reset = c.reset, !.error = error, !.degraded = c.degraded,
                  !.turn = c.history_len,
                  !.requirements = c.requirements, !.start_pool = c.pool,
                  !.prev_pool = c.prev_pool]

\* the filter state a tool or an inbound operation works on
World ==
    [store |-> store, out |-> out, resetRun |-> resetRun, begun |-> begun,
     floored |-> floored]

\* reset_search(): clear conversation context for new search
reset_search(w) ==
    [w EXCEPT !.store = ResetState(w.store),
              !.out = [NoOut EXCEPT !.kind = "reset", !.call = "reset"],
              !.resetRun = Min(2, w.resetRun + 1),
              !.floored = {}]

\* tenure(candidate_id): the stability of one candidate
tenure(w, id) ==
    [w EXCEPT !.out = [NoOut EXCEPT !.kind = "tenure", !.call = "tenure",
                                    !.tenure = analyze(Candidate(id).work_history)]]

\* the result of an operation, for the caller s
ForCaller(result, s) == [result EXCEPT !.session = s]

\* what the calls of the filter leave alone
filterOthers == <<agent, work_history, levelVars, chatVars, pageVars>>

\* a search call of caller s begins in slot k: the candidates are read by
\* the first call, the state is reset on reset_conversation, then
\* _extract_requirements (a request to the language model) is awaited
BeginCall(k, s, query, reset, database) ==
    /\ searches[k].pc = "idle" /\ \A b \in 1..(k - 1) : searches[b].pc # "idle"
    /\ begun < MaxTurns
    /\ begun' = begun + 1
    /\ store' = StartState(store, reset, database)
    /\ floored' = IF reset \/ ~store.loaded THEN {} ELSE floored
    /\ searches' = [searches EXCEPT ![k] = NewSearch(s, query, reset)]
    /\ resetRun' = 0
    /\ out' = NoOut

\* POST /api/agent/search {query, reset_conversation} of a caller
SearchBegin(k, s, query, reset, database) ==
    /\ BeginCall(k, s, query, reset, database)
    /\ UNCHANGED <<tenureOut, filterOthers>>

\* new_reqs = self._extract_requirements(query) returned;
\* self.conversation_history.append(new_reqs) on the history as it is now
SearchAppended(k) ==
    /\ searches[k].pc = "extract"
    /\ store' = Appended(store, searches[k].query)
    /\ searches' = [searches EXCEPT ![k] = AppendedCall(@)]
    /\ resetRun' = 0
    /\ out' = NoOut
    /\ UNCHANGED <<floored, begun, tenureOut, filterOthers>>

\* all_skills = []; for turn in self.conversation_history: ... : the
\* requirements are combined from the history as it is now
SearchCombined(k) ==
    /\ searches[k].pc = "combine"
    /\ searches' = [searches EXCEPT ![k] = CombinedCall(@, store)]
    /\ out' = NoOut
    /\ UNCHANGED <<store, resetRun, floored, begun, tenureOut, filterOthers>>

\* pool = self.current_candidates or self.all_candidates, as they are now;
\* _semantic_match is called next
SearchPool(k) ==
    /\ searches[k].pc = "pool"
    /\ searches' = [searches EXCEPT ![k] = PoolCall(@, store)]
    /\ out' = NoOut
    /\ UNCHANGED <<store, resetRun, floored, begun, tenureOut, filterOthers>>

\* matches = self._semantic_match(pool, all_skills) returned:
\* self.current_candidates = matches on the state as it is now;
\* return matches
MatchedCall(k) ==
    /\ searches[k].pc = "match"
    /\ \E m \in {_semantic_match(searches[k].pool, searches[k].requirements)} :
          /\ store' = Stored(store, m.matches)
          /\ floored' = floored \cup (m.narrowed \ m.matches)
          /\ out' = Response(searches[k], m)
    /\ searches' = [searches EXCEPT ![k] = NoSearch]
    /\ resetRun' = 0
    /\ UNCHANGED begun

SearchMatched(k) ==
    /\ MatchedCall(k)
    /\ UNCHANGED <<tenureOut, filterOthers>>

\* _semantic_match raises (the embedding provider or the profile store
\* fails): filter_candidates has appended the fragment to
\* conversation_history (step 2) and does not reach step 5
SearchFails(k) ==
    /\ searches[k].pc = "match"
    /\ out' = Failure(searches[k], "CollaboratorFailure")
    /\ searches' = [searches EXCEPT ![k] = NoSearch]
    /\ UNCHANGED <<store, resetRun, floored, begun, tenureOut, filterOthers>>

\* caller s calls the reset operation
ResetSearch(s) ==
    /\ \E w \in {reset_search(World)} :
          /\ store' = w.store
          /\ out' = ForCaller(w.out, s)
          /\ resetRun' = w.resetRun
          /\ floored' = w.floored
    /\ UNCHANGED <<searches, begun, tenureOut, filterOthers>>

\* caller s calls the tenure operation
TenureCall(s, id) ==
    /\ out' = ForCaller(tenure(World, id).out, s)
    /\ UNCHANGED <<store, resetRun, floored, searches, begun, tenureOut, filterOthers>>

(***************************************************************************)
(* Initial state of the search core; specification of the turns of one     *)
(* caller: its search and reset calls, in any order and overlapping.       *)
(***************************************************************************)
\* pending: the tool calls of the model's message not yet executed; running:
\* the slot of the progressive_search call the tools node waits for (0: none)
IdleAgent ==
    [state |-> "AWAIT_INPUT", session |-> Null, cycles |-> 0, pending |-> << >>,
     running |-> 0]

InitFilter ==
    /\ store = __init__
    /\ out = NoOut
    /\ resetRun = 0
    /\ floored = {}
    /\ searches = [k \in 1..MaxSearches |-> NoSearch]
    /\ begun = 0

InitAgent == agent = IdleAgent

InitTenure == work_history = << >> /\ tenureOut = NoTenure

NoLevel == [done |-> FALSE, level |-> Null]

InitLevel == experience_years = 0 /\ levelOut = NoLevel

\* chat page (src/Frontend/src/app/chat/[id]/page.tsx): messages, the
\* conversation state and the calls of sendMessage / generateAIResponse
UserMessage(n) == [sender |-> "user", n |-> n, fallback |-> FALSE]
AIMessage(n, fallback) == [sender |-> "ai", n |-> n, fallback |-> fallback]

NoConversation == [loaded |-> FALSE, messages |-> << >>]
NoCall == [pc |-> "idle", conv |-> << >>, message |-> 0]
\* loadConversation before the effect runs: found and row are the answer of
\* the select, isLoading the value the effect's closure holds
NoLoad == [pc |-> "idle", found |-> FALSE, row |-> << >>, isLoading |-> FALSE]

InitPage ==
    /\ route = "/chat"
    /\ conversation = NoConversation
    /\ isLoading = FALSE
    /\ calls = [c \in 0..MaxSends |-> NoCall]
    /\ load = NoLoad

InitChat == InitPage /\ db = <<UserMessage(0)>>

(***************************************************************************)
(* Questionnaires (CandidateQuestionnaire, src/unnamed/part_003, and       *)
(* src/Frontend/src/components/CompanyQuestionnaire.tsx): one question per *)
(* step; a text is its sequence of characters.                             *)
(***************************************************************************)
CANDIDATE_TOTAL_STEPS == 8
COMPANY_TOTAL_STEPS == 11

Components == {"CandidateQuestionnaire", "CompanyQuestionnaire"}

totalSteps(component) ==
    IF component = "CandidateQuestionnaire" THEN CANDIDATE_TOTAL_STEPS
    ELSE COMPANY_TOTAL_STEPS

\* the field each step asks for, step 0 first
StepFields(component) ==
    IF component = "CandidateQuestionnaire"
    THEN <<"career_goals_2_3_years", "preferred_environment", "work_style",
           "workplace_values", "ideal_manager", "problem_domain",
           "growth_priority", "availability">>
    ELSE <<"company_stage", "company_problem", "decision_making",
           "work_life_balance", "failure_handling", "success_definition",
           "leadership_transparency", "team_dynamic", "why_people_stay",
           "why_people_leave", "deal_breaker_values">>

FieldOf(component, step) == StepFields(component)[step + 1]

FieldsOf(component) ==
    {StepFields(component)[i] : i \in DOMAIN StepFields(component)}

\* the fields answered in a textarea, and the length the trimmed text must exceed
TextFields ==
    {"career_goals_2_3_years", "problem_domain", "company_problem",
     "why_people_stay", "why_people_leave", "deal_breaker_values"}

MinTrimmed(field) ==
    IF field \in {"career_goals_2_3_years", "company_problem"} THEN 10 ELSE 5

\* the first option of each radio group (canProceed asks only for a value)
RadioOptions(field) ==
    CASE field = "preferred_environment" -> {"startup"}
      [] field = "work_style" -> {"autonomous"}
      [] field = "ideal_manager" -> {"hands-off"}
      [] field = "growth_priority" -> {"ic-depth"}
      [] field = "availability" -> {"full-time"}
      [] field = "company_stage" -> {"pre-seed"}
      [] field = "decision_making" -> {"top-down"}
      [] field = "work_life_balance" -> {"intense"}
      [] field = "failure_handling" -> {"learn-fast"}
      [] field = "success_definition" -> {"revenue"}
      [] field = "leadership_transparency" -> {"open-book"}
      [] field = "team_dynamic" -> {"highly-collaborative"}
      [] OTHER -> {}

\* a text of n characters ch
Chars(n, ch) == [i \in 1..n |-> ch]

\* the texts typed into a textarea whose trimmed length must exceed n; the
\* last one begins and ends with white space (Enter gives a line feed)
TextInputs(n) ==
    { << >>, Chars(n, "a"), Chars(n + 1, "a"),
      <<" ", "\t">> \o Chars(n, "a") \o <<"\n", "U+00A0">> }

\* four of the ten WORKPLACE_VALUES, in the order of the buttons
WORKPLACE_VALUES ==
    <<"Work-life balance", "Career growth", "Competitive salary", "Autonomy">>

WorkplaceValues == {WORKPLACE_VALUES[i] : i \in DOMAIN WORKPLACE_VALUES}

MAX_VALUES == 3

\* the characters String.prototype.trim strips: WhiteSpace (TAB, VT, FF, SP,
\* NBSP, ZWNBSP and the space separators) and LineTerminator (LF, CR, LS, PS);
\* a character without an escape is named by its code point
WhiteSpace ==
    {"\t", "U+000B", "\f", " ", "U+00A0", "U+FEFF", "U+1680", "U+2000", "U+2001",
     "U+2002", "U+2003", "U+2004", "U+2005", "U+2006", "U+2007", "U+2008",
     "U+2009", "U+200A", "U+202F", "U+205F", "U+3000"}
LineTerminator == {"\n", "\r", "U+2028", "U+2029"}

\* String.prototype.trim
RECURSIVE trimStart(_)
trimStart(text) ==
    IF text # << >> /\ text[1] \in WhiteSpace \cup LineTerminator
    THEN trimStart(Tail(text)) ELSE text

RECURSIVE trimEnd(_)
trimEnd(text) ==
    IF text # << >> /\ text[Len(text)] \in WhiteSpace \cup LineTerminator
    THEN trimEnd(SubSeq(text, 1, Len(text) - 1)) ELSE text

trim(text) == trimEnd(trimStart(text))

\* the data the parent holds before anything is answered
EmptyData(component) ==
    [f \in FieldsOf(component) |->
        IF f \in TextFields \/ f = "workplace_values" THEN << >> ELSE ""]

\* the selections of workplace values a questionnaire may be opened with:
\* at most three values, none twice, here in the order of the buttons
Selections ==
    {[i \in DOMAIN pick |-> WORKPLACE_VALUES[pick[i]]] :
        pick \in {p \in UNION {[1..n -> DOMAIN WORKPLACE_VALUES] : n \in 0..MAX_VALUES} :
                    \A i, j \in DOMAIN p : i < j => p[i] < p[j]}}

NewForm(component, data) ==
    [component |-> component, currentStep |-> 0, data |-> data, completions |-> 0]

\* dashboard, questionnaire and sign-in page before anything is done on them
NoNav == [to |-> "none", id |-> 0]
NoDash ==
    [pc |-> "idle", conversationId |-> FALSE, message |-> << >>, user |-> Null,
     title |-> << >>, read |-> << >>, local |-> FALSE, nav |-> NoNav]

InitDash == table = << >> /\ dash = [d \in 1..MaxDash |-> NoDash]

InitForm == form = NewForm("CandidateQuestionnaire", EmptyData("CandidateQuestionnaire"))

\* the sign-in form as mounted
NoSignIn ==
    [pc |-> "idle", error |-> "", isLoading |-> FALSE, showRoleSelection |-> FALSE,
     userId |-> Null, nav |-> "none"]

NoProfiles == [user_profiles |-> {}, company_profiles |-> {}]

InitSignIn == signin = NoSignIn /\ profiles = NoProfiles

\* the register form as mounted; cvFile: a CV is attached
NoRegister ==
    [pc |-> "idle", cvFile |-> FALSE, isUploading |-> FALSE, error |-> "",
     userId |-> Null, nav |-> "none"]

InitRegister == register = NoRegister

InitPages == InitDash /\ InitForm /\ InitSignIn /\ InitRegister

InitOthers ==
    InitAgent /\ InitTenure /\ InitLevel /\ InitChat /\ InitPages

Init == InitFilter /\ InitOthers

\* the caller whose turns are followed
TurnSessions == {"sA"}

Next ==
    \/ \E k \in 1..MaxSearches, s \in TurnSessions, q \in Queries, reset \in BOOLEAN,
          database \in Databases : SearchBegin(k, s, q, reset, database)
    \/ \E k \in 1..MaxSearches : SearchAppended(k)
    \/ \E k \in 1..MaxSearches : SearchCombined(k)
    \/ \E k \in 1..MaxSearches : SearchPool(k)
    \/ \E k \in 1..MaxSearches : SearchMatched(k)
    \/ \E s \in TurnSessions : ResetSearch(s)

Spec == Init /\ [][Next]_vars

(***************************************************************************)
(* Specification of the tenure analyzer: any work history.                 *)
(***************************************************************************)
InitTenureCalls ==
    /\ InitFilter /\ InitAgent /\ InitLevel /\ InitChat /\ InitPages
    /\ work_history \in WorkHistories
    /\ tenureOut = NoTenure

NextTenure ==
    /\ AnalyzeCall
    /\ UNCHANGED <<store, out, resetRun, floored, searches, begun, agent, levelVars, chatVars, pageVars>>

SpecTenure == InitTenureCalls /\ [][NextTenure]_vars

(***************************************************************************)
(* Specification of the three inbound operations: search, reset and tenure *)
(* calls of any caller, in any order.                                      *)
(***************************************************************************)
\* the candidate whose tenure is asked for
TenureIds == {"c1"}

\* the queries of the two callers, and a profile store that holds the
\* candidates
SessionQueries == {"react", "mid-level typescript"}
LoadedDatabases == {CandidateIds}

NextSession ==
    \/ \E k \in 1..MaxSearches, s \in Sessions, q \in SessionQueries, reset \in BOOLEAN,
          database \in LoadedDatabases : SearchBegin(k, s, q, reset, database)
    \/ \E k \in 1..MaxSearches : SearchAppended(k)
    \/ \E k \in 1..MaxSearches : SearchCombined(k)
    \/ \E k \in 1..MaxSearches : SearchPool(k)
    \/ \E k \in 1..MaxSearches : SearchMatched(k)
    \/ \E s \in Sessions : ResetSearch(s)
    \/ \E s \in Sessions, id \in TenureIds : TenureCall(s, id)

SpecSession == Init /\ [][NextSession]_vars

(***************************************************************************)
(* Specification of the filter with failing collaborators: a search call   *)
(* completes or fails inside _semantic_match.                              *)
(***************************************************************************)
NextFail ==
    \/ \E k \in 1..MaxSearches, s \in TurnSessions, q \in AgentQueries, reset \in BOOLEAN,
          database \in Databases : SearchBegin(k, s, q, reset, database)
    \/ \E k \in 1..MaxSearches : SearchAppended(k)
    \/ \E k \in 1..MaxSearches : SearchCombined(k)
    \/ \E k \in 1..MaxSearches : SearchPool(k)
    \/ \E k \in 1..MaxSearches : SearchMatched(k)
    \/ \E k \in 1..MaxSearches : SearchFails(k)
    \/ \E s \in TurnSessions : ResetSearch(s)

SpecFail == Init /\ [][NextFail]_vars

(***************************************************************************)
(* Specification of the experience level mapping: any number of years up   *)
(* to MaxYears, in steps of a tenth.                                       *)
(***************************************************************************)
MapLevel ==
    /\ ~levelOut.done
    /\ levelOut' = [done |-> TRUE, level |-> ExperienceLevel(experience_years)]
    /\ UNCHANGED experience_years

InitLevelCalls ==
    /\ InitFilter /\ InitAgent /\ InitTenure /\ InitChat /\ InitPages
    /\ experience_years \in 0..Years(MaxYears)
    /\ levelOut = NoLevel

NextLevel ==
    /\ MapLevel
    /\ UNCHANGED <<store, out, resetRun, floored, searches, begun, agent, work_history, tenureOut,
                   chatVars, pageVars>>

SpecLevel == InitLevelCalls /\ [][NextLevel]_vars

(***************************************************************************)
(* AgentLoop (README "LangGraph Agent"):                                   *)
(*   START -> agent -> (tool_calls?) -> tools -> agent -> ... -> END       *)
(* AWAIT_INPUT is the graph at rest, REASON the agent node, TOOL_CALL the  *)
(* tools node, RESPOND the END of the turn.                                *)
(***************************************************************************)
Tools ==
    {"progressive_search", "analyze_candidate_tenure",
     "get_candidate_details", "reset_search"}

\* the caller the agent serves
AgentSessions == {"sA"}

\* a tool call of the model: the tool and its arguments
ToolCall(tool, query, reset, id) ==
    [tool |-> tool, query |-> query, reset |-> reset, id |-> id]

\* The messages of the model followed to the end of the turn: one call of
\* each tool, and a reset followed by a search in one message.
TurnMessages ==
    { <<ToolCall("progressive_search", "react", FALSE, Null)>>,
      <<ToolCall("analyze_candidate_tenure", "", FALSE, "c1")>>,
      <<ToolCall("get_candidate_details", "", FALSE, Null)>>,
      <<ToolCall("reset_search", "", FALSE, Null)>>,
      <<ToolCall("reset_search", "", FALSE, Null),
        ToolCall("progressive_search", "react", FALSE, Null)>> }

\* the messages with tool calls the model may return: those above, a search
\* with reset_conversation, a search for a level, and a search followed by a
\* reset in one message
ToolMessages ==
    TurnMessages \cup
    { <<ToolCall("progressive_search", "react", TRUE, Null)>>,
      <<ToolCall("progressive_search", "senior only", FALSE, Null)>>,
      <<ToolCall("progressive_search", "react", FALSE, Null),
        ToolCall("reset_search", "", FALSE, Null)>> }

\* the progressive_search calls of a message
SearchCalls(tool_calls) == {i \in DOMAIN tool_calls : tool_calls[i].tool = "progressive_search"}

\* a user message arrives: START -> agent
ReceiveMessage(s) ==
    /\ agent.state = "AWAIT_INPUT"
    /\ agent' = [agent EXCEPT !.state = "REASON", !.session = s, !.cycles = 0,
                              !.pending = << >>]
    /\ UNCHANGED <<store, out, resetRun, floored, searches, begun, tenureOut, work_history, levelVars, chatVars, pageVars>>

\* agent node, the model answers directly: otherwise, end
AgentAnswers ==
    /\ agent.state = "REASON"
    /\ agent' = [agent EXCEPT !.state = "RESPOND"]
    /\ UNCHANGED <<store, out, resetRun, floored, searches, begun, tenureOut, work_history, levelVars, chatVars, pageVars>>

\* agent node, the model returns a message with tool calls: loop to tools
AgentCallsTool(tool_calls) ==
    /\ agent.state = "REASON"
    /\ begun + Cardinality(SearchCalls(tool_calls)) <= MaxTurns
    /\ agent' = [agent EXCEPT !.state = "TOOL_CALL", !.pending = tool_calls]
    /\ UNCHANGED <<store, out, resetRun, floored, searches, begun, tenureOut, work_history, levelVars, chatVars, pageVars>>

\* tools node, the next call is progressive_search: the call begins on the
\* filter and the node waits for it
ToolSearchBegins(k, database) ==
    /\ agent.state = "TOOL_CALL" /\ agent.running = 0
    /\ agent.pending # << >> /\ Head(agent.pending).tool = "progressive_search"
    /\ BeginCall(k, agent.session, Head(agent.pending).query,
                 Head(agent.pending).reset, database)
    /\ agent' = [agent EXCEPT !.pending = Tail(@), !.running = k]
    /\ UNCHANGED <<tenureOut, work_history, levelVars, chatVars, pageVars>>

\* tools node: the progressive_search call it waits for returns its matches
ToolSearchReturns ==
    /\ agent.state = "TOOL_CALL" /\ agent.running # 0
    /\ MatchedCall(agent.running)
    /\ agent' = [agent EXCEPT !.running = 0]
    /\ UNCHANGED <<tenureOut, work_history, levelVars, chatVars, pageVars>>

\* one of the other tools of the agent, run on the filter
RunTool(w, call) ==
    CASE call.tool = "reset_search" -> reset_search(w)
      [] call.tool = "analyze_candidate_tenure" -> tenure(w, call.id)
      [] OTHER -> w

\* tools node, the next call is one of the other tools
ToolRuns ==
    /\ agent.state = "TOOL_CALL" /\ agent.running = 0
    /\ agent.pending # << >> /\ Head(agent.pending).tool # "progressive_search"
    /\ \E w \in {RunTool(World, Head(agent.pending))} :
          /\ store' = w.store
          /\ out' = IF w.out = out THEN out ELSE ForCaller(w.out, agent.session)
          /\ resetRun' = w.resetRun
          /\ floored' = w.floored
    /\ agent' = [agent EXCEPT !.pending = Tail(@)]
    /\ UNCHANGED <<searches, begun, tenureOut, work_history, levelVars, chatVars, pageVars>>

\* tools node: every tool the model called has been executed, back to the
\* agent node
ToolsNodeReturns ==
    /\ agent.state = "TOOL_CALL" /\ agent.running = 0 /\ agent.pending = << >>
    /\ agent' = [agent EXCEPT !.state = "REASON",
                              !.cycles = Min(MaxCycles, agent.cycles + 1)]
    /\ UNCHANGED <<store, out, resetRun, floored, searches, begun, tenureOut, work_history, levelVars, chatVars, pageVars>>

\* tools node: the progressive_search call it waits for takes its next
\* statement
ToolSearchStep ==
    \E k \in {agent.running} \ {0} :
        SearchAppended(k) \/ SearchCombined(k) \/ SearchPool(k)

\* tools node: executes whichever tool(s) the model called
ToolsNode ==
    \/ \E k \in 1..MaxSearches, database \in Databases : ToolSearchBegins(k, database)
    \/ ToolSearchStep
    \/ ToolSearchReturns
    \/ ToolRuns
    \/ ToolsNodeReturns

\* END: the response goes back to the caller
Respond ==
    /\ agent.state = "RESPOND"
    /\ agent' = [agent EXCEPT !.state = "AWAIT_INPUT"]
    /\ UNCHANGED <<store, out, resetRun, floored, searches, begun, tenureOut, work_history, levelVars, chatVars, pageVars>>

\* the queries of the other callers
OtherQueries == {"mid-level typescript"}

\* a search call of another caller begins; the calls begun in one run leave
\* room for the progressive_search calls the tools node has still to make
OtherSearchBegin(k, s, query, database) ==
    /\ begun + Cardinality(SearchCalls(agent.pending)) < MaxTurns
    /\ SearchBegin(k, s, query, FALSE, database)

\* a search call of another caller returns
OtherSearchMatched(k) == k # agent.running /\ SearchMatched(k)

\* the agent, and other callers of POST /api/agent/search
NextAgent ==
    \/ \E s \in AgentSessions : ReceiveMessage(s)
    \/ AgentAnswers
    \/ \E tool_calls \in ToolMessages : AgentCallsTool(tool_calls)
    \/ \E k \in 1..MaxSearches, database \in Databases : ToolSearchBegins(k, database)
    \/ \E k \in 1..MaxSearches : SearchAppended(k)
    \/ \E k \in 1..MaxSearches : SearchCombined(k)
    \/ \E k \in 1..MaxSearches : SearchPool(k)
    \/ \E k \in 1..MaxSearches : OtherSearchMatched(k)
    \/ ToolSearchReturns
    \/ ToolRuns
    \/ ToolsNodeReturns
    \/ \E k \in 1..MaxSearches, s \in AgentSessions, q \in OtherQueries,
          database \in Databases : OtherSearchBegin(k, s, q, database)
    \/ Respond

SpecAgent == Init /\ [][NextAgent]_vars

\* The agent node returns (an answer or tool calls), the tools node returns
\* and END returns: no node of the graph waits forever.  Which of the two the
\* model returns is its own choice.
AgentNode == AgentAnswers \/ \E tool_calls \in TurnMessages : AgentCallsTool(tool_calls)

NextAgentTurn ==
    \/ \E s \in AgentSessions : ReceiveMessage(s)
    \/ AgentNode
    \/ ToolsNode
    \/ Respond

SpecAgentFair ==
    /\ Init /\ [][NextAgentTurn]_vars
    /\ WF_vars(AgentNode)
    /\ WF_vars(ToolsNode)
    /\ WF_vars(Respond)

(***************************************************************************)
(* Chat page (src/Frontend/src/app/chat/[id]/page.tsx).  A call of         *)
(* sendMessage / generateAIResponse runs from one await to the next:       *)
(*   saving      sendMessage awaits the update of the conversations row    *)
(*   fetching    generateAIResponse awaits fetch('/api/conversation')      *)
(*   persisting  generateAIResponse awaits the update of the row           *)
(* Call 0 is the one loadConversation starts, call n > 0 is the n-th       *)
(* message the user sends.                                                 *)
(***************************************************************************)
\* what the conversations row may hold when the page is opened
StoredConversations ==
    { << >>,
      <<UserMessage(0)>>,
      <<UserMessage(0), AIMessage(0, FALSE)>>,
      <<UserMessage(0), AIMessage(0, FALSE), UserMessage(0)>> }

\* hasAIReply = lastMessageIndex > 0 && messages[lastMessageIndex - 1]?.sender === 'ai'
hasAIReply(messages) ==
    Len(messages) - 1 > 0 /\ messages[Len(messages) - 1].sender = "ai"

\* the useEffect of the mount: loadConversation up to
\* await isAuthenticatedAsync()
loadConversation ==
    /\ route = "/chat" /\ load.pc = "idle"
    /\ load' = [load EXCEPT !.pc = "isAuthenticatedAsync", !.isLoading = isLoading]
    /\ UNCHANGED <<route, conversation, isLoading, calls, db, coreVars, pageVars>>

\* isAuthenticatedAsync() settles; a rejection goes to the catch
isAuthenticatedSettled(authenticated, rejected) ==
    /\ load.pc = "isAuthenticatedAsync"
    /\ IF rejected THEN route' = "/find" /\ load' = [load EXCEPT !.pc = "done"]
       ELSE IF ~authenticated THEN route' = "/" /\ load' = [load EXCEPT !.pc = "done"]
       ELSE load' = [load EXCEPT !.pc = "getCurrentUserAsync"] /\ UNCHANGED route
    /\ UNCHANGED <<conversation, isLoading, calls, db, coreVars, pageVars>>

\* getCurrentUserAsync() settles; with a user the select is sent
loadUserSettled(user, rejected) ==
    /\ load.pc = "getCurrentUserAsync"
    /\ IF rejected THEN route' = "/find" /\ load' = [load EXCEPT !.pc = "done"]
       ELSE IF user = Null THEN route' = "/" /\ load' = [load EXCEPT !.pc = "done"]
       ELSE load' = [load EXCEPT !.pc = "select"] /\ UNCHANGED route
    /\ UNCHANGED <<conversation, isLoading, calls, db, coreVars, pageVars>>

\* the select of the row is served: the answer holds the row as it is now
\* (found), or an error or no data
selectServed(found) ==
    /\ load.pc = "select"
    /\ load' = [load EXCEPT !.pc = "served", !.found = found,
                            !.row = IF found THEN db ELSE << >>]
    /\ UNCHANGED <<route, conversation, isLoading, calls, db, coreVars, pageVars>>

\* the select settles: the continuation of loadConversation, on the row as
\* it was served
selectSettled ==
    /\ load.pc = "served"
    /\ load' = [load EXCEPT !.pc = "done"]
    /\ IF ~load.found \/ load.row = << >> THEN
            route' = "/find" /\ UNCHANGED <<conversation, isLoading, calls>>
       ELSE /\ conversation' = [loaded |-> TRUE, messages |-> load.row]
            /\ IF /\ load.row[Len(load.row)].sender = "user"
                  /\ ~load.isLoading
                  /\ ~hasAIReply(load.row)
               THEN \* generateAIResponse(currentConversation, lastMessage)
                    /\ isLoading' = TRUE
                    /\ calls' = [calls EXCEPT ![0] =
                                    [pc |-> "fetching", conv |-> load.row,
                                     message |-> load.row[Len(load.row)].n]]
               ELSE UNCHANGED <<isLoading, calls>>
            /\ UNCHANGED route
    /\ UNCHANGED <<db, coreVars, pageVars>>

\* the texts the user sends: nothing, white space only, and texts with
\* characters other than white space
ChatTexts ==
    { << >>, <<" ", " ", " ">>, <<"\t", "\n">>,
      <<"r", "e", "a", "c", "t">>, <<" ", "o", "k", "\n">> }

\* the input is disabled while isLoading; sendMessage up to its first await:
\* if (!message.trim() || !conversation) return;
sendMessage(c, message) ==
    /\ route = "/chat" /\ ~isLoading
    /\ calls[c].pc = "idle" /\ \A b \in 1..(c - 1) : calls[b].pc # "idle"
    /\ IF trim(message) = << >> \/ ~conversation.loaded
       THEN UNCHANGED <<conversation, calls>>
       ELSE /\ conversation' = [conversation EXCEPT !.messages = Append(@, UserMessage(c))]
            /\ calls' = [calls EXCEPT ![c] =
                            [pc |-> "saving",
                             conv |-> Append(conversation.messages, UserMessage(c)),
                             message |-> c]]
    /\ UNCHANGED <<route, isLoading, load, db, coreVars, pageVars>>

\* the update of the row settles; generateAIResponse up to its fetch
sendMessageSaved(c, saved) ==
    /\ calls[c].pc = "saving"
    /\ db' = IF saved THEN calls[c].conv ELSE db
    /\ isLoading' = TRUE
    /\ calls' = [calls EXCEPT ![c].pc = "fetching"]
    /\ UNCHANGED <<route, conversation, load, coreVars, pageVars>>

\* the fetch settles: the reply, or the fallback message, is appended to the
\* conversation the call was started with
generateAIResponseSettled(c, ok) ==
    /\ calls[c].pc = "fetching"
    /\ conversation' =
          [loaded |-> TRUE,
           messages |-> Append(calls[c].conv, AIMessage(calls[c].message, ~ok))]
    /\ calls' = [calls EXCEPT ![c].pc = "persisting",
                              ![c].conv = Append(@, AIMessage(calls[c].message, ~ok))]
    /\ UNCHANGED <<route, isLoading, load, db, coreVars, pageVars>>

\* the update of the row settles; finally setIsLoading(false)
generateAIResponseFinally(c, saved) ==
    /\ calls[c].pc = "persisting"
    /\ db' = IF saved THEN calls[c].conv ELSE db
    /\ isLoading' = FALSE
    /\ calls' = [calls EXCEPT ![c].pc = "done"]
    /\ UNCHANGED <<route, conversation, load, coreVars, pageVars>>

InitChatPage ==
    /\ InitFilter /\ InitAgent /\ InitTenure /\ InitLevel /\ InitPages
    /\ InitPage
    /\ db \in StoredConversations

NextChat ==
    \/ loadConversation
    \/ \E authenticated, rejected \in BOOLEAN : isAuthenticatedSettled(authenticated, rejected)
    \/ \E user \in {"u1", Null}, rejected \in BOOLEAN : loadUserSettled(user, rejected)
    \/ \E found \in BOOLEAN : selectServed(found)
    \/ selectSettled
    \/ \E c \in 1..MaxSends, message \in ChatTexts : sendMessage(c, message)
    \/ \E c \in 1..MaxSends, saved \in BOOLEAN : sendMessageSaved(c, saved)
    \/ \E c \in 0..MaxSends, ok \in BOOLEAN : generateAIResponseSettled(c, ok)
    \/ \E c \in 0..MaxSends, saved \in BOOLEAN : generateAIResponseFinally(c, saved)

SpecChat == InitChatPage /\ [][NextChat]_vars

\* the requests to /api/conversation that are under way
InFlight == {c \in DOMAIN calls : calls[c].pc = "fetching"}

(***************************************************************************)
(* Dashboard (src/Frontend/src/components/dashboard.tsx).  A call of       *)
(* handleSendMessage runs from one await to the next:                      *)
(*   auth           awaits getCurrentUserAsync()                           *)
(*   select_row     awaits the select of the row's messages (with id)      *)
(*   update_row     awaits the update of the row's messages (with id)      *)
(*   select_title   awaits the select of the rows with the title           *)
(*   insert         awaits the insert of the new row                       *)
(* A message is its sequence of characters; the id of a row of the table   *)
(* is its position in it, id 0 is a conversation kept in localStorage only.*)
(***************************************************************************)
Users == {"u1", "u2"}

TITLE_MAX == 50

\* the messages typed into the dashboard: a short one, and two long ones that
\* differ after the first 50 characters
DashMessages ==
    { <<"h", "i">>, Chars(TITLE_MAX, "a") \o <<"x">>, Chars(TITLE_MAX, "a") \o <<"y">> }

\* title = message.length > 50 ? message.substring(0, 50) + '...' : message
title(message) ==
    IF Len(message) > TITLE_MAX
    THEN SubSeq(message, 1, TITLE_MAX) \o <<".", ".", ".">>
    ELSE message

\* the message of dashboard call d in the messages of the chat's row
DashMessage(d) == UserMessage(MaxSends + d)

\* existingConvs: the ids of the rows with this title and user
existingConvs(t, user) ==
    {i \in DOMAIN table : table[i].title = t /\ table[i].user_id = user}

\* catch: the conversation is created in localStorage only and opened
DashFallback(d) ==
    dash' = [dash EXCEPT ![d].pc = "done", ![d].local = TRUE,
                         ![d].title = title(dash[d].message),
                         ![d].nav = [to |-> "/chat", id |-> 0]]

\* what the dashboard leaves alone
dashOthers == <<coreVars, route, conversation, isLoading, calls, load, form, signin, profiles, register>>

\* handleSendMessage up to its first await
handleSendMessage(d, message, conversationId) ==
    /\ dash[d].pc = "idle" /\ \A b \in 1..(d - 1) : dash[b].pc # "idle"
    /\ dash' = [dash EXCEPT ![d].pc = "auth", ![d].message = message,
                            ![d].conversationId = conversationId]
    /\ UNCHANGED <<table, db, dashOthers>>

\* getCurrentUserAsync() settles: with the user of the session, with null, or
\* rejected (supabase.auth.getSession() throws inside the try)
getCurrentUserSettled(d, user, rejected) ==
    /\ dash[d].pc = "auth"
    /\ IF rejected THEN DashFallback(d)
       ELSE IF user = Null
       THEN dash' = [dash EXCEPT ![d].pc = "done", ![d].nav = [to |-> "/", id |-> 0]]
       ELSE IF dash[d].conversationId
       THEN dash' = [dash EXCEPT ![d].pc = "select_row", ![d].user = user]
       ELSE dash' = [dash EXCEPT ![d].pc = "select_title", ![d].user = user,
                                 ![d].title = title(dash[d].message)]
    /\ UNCHANGED <<table, db, dashOthers>>

\* the select of the row's messages settles
selectRowSettled(d, fetchError) ==
    /\ dash[d].pc = "select_row"
    /\ IF fetchError THEN DashFallback(d)
       ELSE dash' = [dash EXCEPT ![d].pc = "update_row", ![d].read = db]
    /\ UNCHANGED <<table, db, dashOthers>>

\* the update of the row with updatedMessages settles
updateRowSettled(d, updateError) ==
    /\ dash[d].pc = "update_row"
    /\ IF updateError
       THEN DashFallback(d) /\ UNCHANGED db
       ELSE /\ db' = Append(dash[d].read, DashMessage(d))
            /\ dash' = [dash EXCEPT ![d].pc = "done"]
    /\ UNCHANGED <<table, dashOthers>>

\* the select of the rows with this title and user settles; the query has
\* no order, so first (existingConvs[0]) is any of the matching rows
selectTitleSettled(d, searchError, first) ==
    /\ dash[d].pc = "select_title"
    /\ IF searchError THEN first = 0 /\ DashFallback(d)
       ELSE IF existingConvs(dash[d].title, dash[d].user) # {}
       THEN /\ first \in existingConvs(dash[d].title, dash[d].user)
            /\ dash' = [dash EXCEPT ![d].pc = "done",
                                    ![d].nav = [to |-> "/chat", id |-> first]]
       ELSE first = 0 /\ dash' = [dash EXCEPT ![d].pc = "insert"]
    /\ UNCHANGED <<table, db, dashOthers>>

\* the insert of the new row settles
insertSettled(d, insertError) ==
    /\ dash[d].pc = "insert"
    /\ IF insertError
       THEN DashFallback(d) /\ UNCHANGED table
       ELSE /\ table' = Append(table, [user_id |-> dash[d].user, title |-> dash[d].title])
            /\ dash' = [dash EXCEPT ![d].pc = "done", ![d].local = TRUE,
                                    ![d].nav = [to |-> "/chat", id |-> Len(table) + 1]]
    /\ UNCHANGED <<db, dashOthers>>

\* the dashboard without a conversationId: new conversations
NextDash ==
    \/ \E d \in 1..MaxDash, message \in DashMessages : handleSendMessage(d, message, FALSE)
    \/ \E d \in 1..MaxDash, user \in Users \cup {Null}, rejected \in BOOLEAN :
          getCurrentUserSettled(d, user, rejected)
    \/ \E d \in 1..MaxDash, searchError \in BOOLEAN, first \in 0..MaxDash :
          selectTitleSettled(d, searchError, first)
    \/ \E d \in 1..MaxDash, insertError \in BOOLEAN : insertSettled(d, insertError)

SpecDash == Init /\ [][NextDash]_vars

\* the chat page and a dashboard with the conversationId of the same row
\* (ChatPage and Dashboard open on one conversation, in one or two tabs)
NextShared ==
    \/ loadConversation
    \/ \E authenticated, rejected \in BOOLEAN : isAuthenticatedSettled(authenticated, rejected)
    \/ \E user \in {"u1", Null}, rejected \in BOOLEAN : loadUserSettled(user, rejected)
    \/ \E found \in BOOLEAN : selectServed(found)
    \/ selectSettled
    \/ \E c \in 1..SharedSends, message \in ChatTexts : sendMessage(c, message)
    \/ \E c \in 1..SharedSends, saved \in BOOLEAN : sendMessageSaved(c, saved)
    \/ \E c \in 0..SharedSends, ok \in BOOLEAN : generateAIResponseSettled(c, ok)
    \/ \E c \in 0..SharedSends, saved \in BOOLEAN : generateAIResponseFinally(c, saved)
    \/ \E d \in 1..SharedDash : handleSendMessage(d, <<"h", "i">>, TRUE)
    \/ \E d \in 1..SharedDash, user \in Users \cup {Null}, rejected \in BOOLEAN :
          getCurrentUserSettled(d, user, rejected)
    \/ \E d \in 1..SharedDash, fetchError \in BOOLEAN : selectRowSettled(d, fetchError)
    \/ \E d \in 1..SharedDash, updateError \in BOOLEAN : updateRowSettled(d, updateError)

SpecShared == InitChatPage /\ [][NextShared]_vars

(***************************************************************************)
(* Questionnaire handlers.  The parent keeps the data the component hands  *)
(* to onChange; only the input of the current step is rendered.            *)
(***************************************************************************)
formOthers == <<coreVars, chatVars, table, dash, signin, profiles, register>>

\* canProceed(), for the step and data at hand
canProceed(component, step, data) ==
    LET field == FieldOf(component, step) IN
    IF step \notin 0..(totalSteps(component) - 1) THEN TRUE
    ELSE IF field \in TextFields THEN Len(trim(data[field])) > MinTrimmed(field)
    ELSE IF field = "workplace_values" THEN Len(data[field]) >= 1
    ELSE data[field] # ""

\* updateField: onChange({ ...data, [field]: value })
updateField(field, value) ==
    form' = [form EXCEPT !.data[field] = value]

\* current.filter((v) => v !== value)
Without(current, value) == SelectSeq(current, LAMBDA v : v # value)

\* faulty variant of toggleValue: a fourth value can be selected
toggleValueUpTo4(value) ==
    LET current == form.data["workplace_values"] IN
    /\ FieldOf(form.component, form.currentStep) = "workplace_values"
    /\ IF \E i \in DOMAIN current : current[i] = value
       THEN updateField("workplace_values", Without(current, value))
       ELSE IF Len(current) <= MAX_VALUES
       THEN updateField("workplace_values", Append(current, value))
       ELSE UNCHANGED form
    /\ UNCHANGED formOthers

\* a click on one of the value buttons of step 3
toggleValue(value) ==
    LET current == form.data["workplace_values"] IN
    /\ FieldOf(form.component, form.currentStep) = "workplace_values"
    /\ IF \E i \in DOMAIN current : current[i] = value
       THEN updateField("workplace_values", Without(current, value))
       ELSE IF Len(current) < MAX_VALUES
       THEN updateField("workplace_values", Append(current, value))
       ELSE UNCHANGED form
    /\ UNCHANGED formOthers

\* typing into the textarea of the current step
EditText(text) ==
    /\ FieldOf(form.component, form.currentStep) \in TextFields
    /\ text \in TextInputs(MinTrimmed(FieldOf(form.component, form.currentStep)))
    /\ updateField(FieldOf(form.component, form.currentStep), text)
    /\ UNCHANGED formOthers

\* choosing an option of the radio group of the current step
SelectOption(option) ==
    /\ option \in RadioOptions(FieldOf(form.component, form.currentStep))
    /\ updateField(FieldOf(form.component, form.currentStep), option)
    /\ UNCHANGED formOthers

\* faulty variant of handleNext: the last step is left as well
handleNextPastEnd ==
    /\ form.currentStep < totalSteps(form.component)
    /\ form' = [form EXCEPT !.currentStep = @ + 1]
    /\ UNCHANGED formOthers

handleNext ==
    /\ IF form.currentStep < totalSteps(form.component) - 1
       THEN form' = [form EXCEPT !.currentStep = @ + 1]
       ELSE /\ form.completions < MaxCompletes
            /\ form' = [form EXCEPT !.completions = @ + 1]
    /\ UNCHANGED formOthers

handleBack ==
    /\ IF form.currentStep > 0
       THEN form' = [form EXCEPT !.currentStep = @ - 1]
       ELSE UNCHANGED form
    /\ UNCHANGED formOthers

\* faulty variant of ClickNext: the button is never disabled
ClickNextAlways == handleNext

\* the Next / Complete button: disabled={!canProceed()}
ClickNext ==
    /\ canProceed(form.component, form.currentStep, form.data)
    /\ handleNext

\* the Back button: disabled={currentStep === 0}
ClickBack == form.currentStep # 0 /\ handleBack

\* a questionnaire as it is opened: nothing answered, or (candidate) with
\* workplace values selected earlier
InitQuestionnaire ==
    /\ InitFilter /\ InitAgent /\ InitTenure /\ InitLevel /\ InitChat
    /\ InitDash /\ InitSignIn /\ InitRegister
    /\ \/ form = NewForm("CompanyQuestionnaire", EmptyData("CompanyQuestionnaire"))
       \/ \E sel \in Selections :
             form = NewForm("CandidateQuestionnaire",
                            [EmptyData("CandidateQuestionnaire")
                                EXCEPT !["workplace_values"] = sel])

\* the user answers and clicks Next and Back
NextForm ==
    \/ \E n \in {5, 10} : \E text \in TextInputs(n) : EditText(text)
    \/ \E component \in Components : \E field \in FieldsOf(component) :
          \E option \in RadioOptions(field) : SelectOption(option)
    \/ \E value \in WorkplaceValues : toggleValue(value)
    \/ ClickNext
    \/ ClickBack

SpecForm == InitQuestionnaire /\ [][NextForm]_vars

\* handleNext, handleBack and toggleValue called in any order, whatever the
\* buttons allow
NextSteps ==
    \/ \E value \in WorkplaceValues : toggleValue(value)
    \/ handleNext
    \/ handleBack

SpecSteps == InitQuestionnaire /\ [][NextSteps]_vars

(***************************************************************************)
(* Sign-in page (src/Frontend/src/app/find/sign-in/page.tsx).  handleSubmit*)
(* and handleRoleSelect run from one await to the next; user_profiles and  *)
(* company_profiles hold at most one row per user_id (UNIQUE), so a table  *)
(* is the set of the user ids that have a row.  A select that fails gives  *)
(* { data: null, error }; the handlers read data only.                     *)
(***************************************************************************)
signinOthers == <<coreVars, chatVars, table, dash, form, register>>

\* handleSubmit up to await signIn(email, password)
handleSubmit ==
    /\ signin.pc \in {"idle", "failed"} /\ ~signin.showRoleSelection
    /\ signin' = [signin EXCEPT !.pc = "signIn", !.error = "", !.isLoading = TRUE]
    /\ UNCHANGED <<profiles, signinOthers>>

\* signIn settles: it throws, returns no user, or returns the user
signInSettled(thrown, user) ==
    /\ signin.pc = "signIn"
    /\ IF thrown \/ user = Null
       THEN signin' = [signin EXCEPT !.pc = "failed", !.isLoading = FALSE,
                          !.error = IF thrown THEN "Invalid login credentials"
                                    ELSE "No user found"]
       ELSE signin' = [signin EXCEPT !.pc = "select_user_profiles", !.userId = user]
    /\ UNCHANGED <<profiles, signinOthers>>

\* the select on user_profiles settles: candidateData
selectCandidateSettled(failed) ==
    /\ signin.pc = "select_user_profiles"
    /\ IF ~failed /\ signin.userId \in profiles.user_profiles
       THEN signin' = [signin EXCEPT !.pc = "submitted", !.nav = "/be-found"]
       ELSE signin' = [signin EXCEPT !.pc = "select_company_profiles"]
    /\ UNCHANGED <<profiles, signinOthers>>

\* the select on company_profiles settles: companyData
selectCompanySettled(failed) ==
    /\ signin.pc = "select_company_profiles"
    /\ IF ~failed /\ signin.userId \in profiles.company_profiles
       THEN signin' = [signin EXCEPT !.pc = "submitted", !.nav = "/find"]
       ELSE signin' = [signin EXCEPT !.pc = "submitted", !.showRoleSelection = TRUE,
                                     !.isLoading = FALSE]
    /\ UNCHANGED <<profiles, signinOthers>>

\* a role button (disabled={isLoading}); handleRoleSelect up to its insert
handleRoleSelect(role) ==
    /\ signin.showRoleSelection /\ ~signin.isLoading /\ signin.nav = "none"
    /\ IF signin.userId = Null THEN UNCHANGED signin
       ELSE signin' = [signin EXCEPT !.pc = role, !.isLoading = TRUE]
    /\ UNCHANGED <<profiles, signinOthers>>

\* the insert settles; a second row for the user_id violates UNIQUE
insertProfileSettled(failed) ==
    /\ signin.pc \in {"candidate", "company"}
    /\ LET rows == IF signin.pc = "candidate" THEN "user_profiles" ELSE "company_profiles"
       IN IF failed \/ signin.userId \in profiles[rows]
          THEN /\ signin' = [signin EXCEPT !.pc = "role_failed", !.isLoading = FALSE,
                               !.error = "Failed to create profile. Please contact support."]
               /\ UNCHANGED profiles
          ELSE /\ profiles' = [profiles EXCEPT ![rows] = @ \cup {signin.userId}]
               /\ signin' = [signin EXCEPT !.pc = "role_done",
                               !.nav = IF signin.pc = "candidate" THEN "/be-found"
                                       ELSE "/find/company-details"]
    /\ UNCHANGED signinOthers

(***************************************************************************)
(* Register page (src/Frontend/src/app/register/page.tsx).  handleSubmit   *)
(* runs from one await to the next and upserts the user_profiles row of    *)
(* the session's user.                                                     *)
(***************************************************************************)
registerOthers == <<coreVars, chatVars, table, dash, form, signin>>

\* catch and finally of the register page's handleSubmit
RegisterFailed(message) ==
    register' = [register EXCEPT !.pc = "failed", !.error = message,
                                 !.isUploading = FALSE]

\* the submit button (disabled={isUploading}); up to await signUp(...)
registerSubmit(cvFile) ==
    /\ ~register.isUploading
    /\ register' = [register EXCEPT !.pc = "signUp", !.cvFile = cvFile,
                                    !.isUploading = TRUE, !.error = ""]
    /\ UNCHANGED <<profiles, registerOthers>>

\* signUp settles
signUpSettled(thrown) ==
    /\ register.pc = "signUp"
    /\ IF thrown THEN RegisterFailed("Authentication failed")
       ELSE register' = [register EXCEPT !.pc = "getSession"]
    /\ UNCHANGED <<profiles, registerOthers>>

\* supabase.auth.getSession() settles: no session (email confirmation), or
\* the session of the user; with a CV the parse request is sent next
getSessionSettled(user, rejected) ==
    /\ register.pc = "getSession"
    /\ IF rejected THEN RegisterFailed("Failed to process registration.")
       ELSE IF user = Null
       THEN register' = [register EXCEPT !.pc = "unconfirmed", !.isUploading = FALSE]
       ELSE register' = [register EXCEPT !.userId = user,
                            !.pc = IF register.cvFile THEN "parse" ELSE "upsert"]
    /\ UNCHANGED <<profiles, registerOthers>>

\* fetch('/api/parse-cv') settles: parsed or not, the profile is upserted
parseSettled(thrown) ==
    /\ register.pc = "parse"
    /\ IF thrown THEN RegisterFailed("Failed to process registration.")
       ELSE register' = [register EXCEPT !.pc = "upsert"]
    /\ UNCHANGED <<profiles, registerOthers>>

\* the upsert on user_profiles (onConflict: user_id) settles
upsertSettled(profileError) ==
    /\ register.pc = "upsert"
    /\ IF profileError
       THEN RegisterFailed("Failed to process registration.") /\ UNCHANGED profiles
       ELSE /\ profiles' = [profiles EXCEPT !.user_profiles = @ \cup {register.userId}]
            /\ register' = [register EXCEPT !.pc = "done", !.nav = "/be-found",
                                            !.isUploading = FALSE]
    /\ UNCHANGED registerOthers

InitSignInPage ==
    /\ InitFilter /\ InitAgent /\ InitTenure /\ InitLevel /\ InitChat
    /\ InitDash /\ InitForm /\ InitRegister
    /\ signin = NoSignIn
    /\ profiles \in [user_profiles : SUBSET Users, company_profiles : SUBSET Users]

NextSignIn ==
    \/ handleSubmit
    \/ \E thrown \in BOOLEAN, user \in Users \cup {Null} : signInSettled(thrown, user)
    \/ \E failed \in BOOLEAN : selectCandidateSettled(failed)
    \/ \E failed \in BOOLEAN : selectCompanySettled(failed)
    \/ \E role \in {"candidate", "company"} : handleRoleSelect(role)
    \/ \E failed \in BOOLEAN : insertProfileSettled(failed)
    \/ \E cvFile \in BOOLEAN : registerSubmit(cvFile)
    \/ \E thrown \in BOOLEAN : signUpSettled(thrown)
    \/ \E user \in Users \cup {Null}, rejected \in BOOLEAN : getSessionSettled(user, rejected)
    \/ \E thrown \in BOOLEAN : parseSettled(thrown)
    \/ \E profileError \in BOOLEAN : upsertSettled(profileError)

SpecSignIn == InitSignInPage /\ [][NextSignIn]_vars

(***************************************************************************)
(* Properties.                                                             *)
(***************************************************************************)

\* C1  Monotonic narrowing: the pool stored after a turn n > 1 that is not a
\* reset is a subset of the pool stored after turn n-1, also when that pool
\* is empty.
C1_MonotonicNarrowing ==
    (out.kind = "filter" /\ ~out.reset /\ out.turn > 1)
        => out.matches \subseteq out.prev_pool

\* C2  Reset idempotence: a reset that follows a reset leaves the
\* ConversationState as the first reset left it: the pool is the full
\* universe of the filter and the history is empty.
C2_ResetIdempotent ==
    [][(resetRun >= 1 /\ resetRun' = 2)
          => /\ store' = store
             /\ store'.current_candidates = store'.all_candidates
             /\ store'.conversation_history = << >>]_vars

C2_Witness ==
    /\ resetRun = 2 /\ out.kind = "reset"
    /\ store.all_candidates = CandidateIds

\* the value of the latest fragment of the history that sets the field, or
\* none when no fragment sets it
SetAt(history, field, none) == {i \in DOMAIN history : history[i][field] # none}

MostRecent(history, field, none) ==
    IF SetAt(history, field, none) = {} THEN none
    ELSE history[CHOOSE i \in SetAt(history, field, none) :
                    \A j \in SetAt(history, field, none) : j <= i][field]

\* a search call that came back: with its matches, or with an exception
Returned == out.call = "search" /\ out.kind \in {"filter", "failed"}

\* call k begins in this step
Begins(k) == searches[k].pc = "idle" /\ searches'[k].pc = "extract"

\* call k appends its fragment in this step
Appends(k) == searches[k].pc = "extract" /\ searches'[k].pc = "combine"

\* call k combines the requirements of the history in this step
Combines(k) == searches[k].pc = "combine" /\ searches'[k].pc = "pool"

\* call k returns in this step
Returns(k) == searches[k].pc = "match" /\ searches'[k].pc = "idle"

\* C3  Override semantics: each scalar field of the effective requirement set
\* of a turn is the value of the most recent fragment of the history that
\* sets it, and null only when no fragment sets it.
C3_OverrideSemantics ==
    [][\A k \in DOMAIN searches :
          Combines(k) =>
              LET h == store'.conversation_history
                  req == searches'[k].requirements
              IN  /\ req.experience_level = MostRecent(h, "experience_level", Null)
                  /\ req.availability = MostRecent(h, "availability", Null)
                  /\ req.location = MostRecent(h, "location", NoText)]_vars

C3_Witness ==
    \E k \in DOMAIN searches :
        /\ searches[k].pc = "match"
        /\ searches[k].requirements.experience_level = "senior"
        /\ LET h == store.conversation_history
           IN  /\ Len(h) = searches[k].history_len
               /\ \E i, j \in DOMAIN h :
                     /\ i < j
                     /\ h[i].experience_level = "mid"
                     /\ h[j].experience_level = "senior"

AtLeast3Years(job) == job.months >= LONG_MONTHS
Under12Months(job) == job.months < SHORT_MONTHS

\* C7 as stated  Tenure labeling: three jobs of at least 3 years each give
\* stable, four jobs of under 12 months each give high_risk.
C7_TenureLabelsAsStated ==
    tenureOut.done =>
        /\ (Len(work_history) = 3 /\ (\A i \in DOMAIN work_history : AtLeast3Years(work_history[i])))
              => tenureOut.label = "stable"
        /\ (Len(work_history) = 4 /\ (\A i \in DOMAIN work_history : Under12Months(work_history[i])))
              => tenureOut.label = "high_risk"

\* C7 amended  Tenure labeling: three jobs of more than 3 years each give
\* stable, four jobs of under 12 months each give high_risk.
C7_TenureLabels ==
    tenureOut.done =>
        /\ (Len(work_history) = 3 /\ (\A i \in DOMAIN work_history : IsLong(work_history[i])))
              => tenureOut.label = "stable"
        /\ (Len(work_history) = 4 /\ (\A i \in DOMAIN work_history : Under12Months(work_history[i])))
              => tenureOut.label = "high_risk"

C7_Witness ==
    /\ tenureOut.done
    /\ Len(work_history) = 3
    /\ (\A i \in DOMAIN work_history : IsLong(work_history[i]))
    /\ tenureOut.label = "stable"

\* C8  Tool-loop bound: at most LoopCap REASON <-> TOOL_CALL cycles in one
\* user turn; at the cap no further tool call is executed.
LoopCap == 5

C8_ToolLoopBound ==
    /\ agent.cycles <= LoopCap
    /\ agent.state = "TOOL_CALL" => agent.cycles < LoopCap

\* a step of a call of session s: one of its search calls moves on, or its
\* reset or tenure call returns
ActsFor(s) ==
    \/ \E k \in DOMAIN searches :
          /\ searches'[k] # searches[k]
          /\ s \in {searches[k].session, searches'[k].session}
    \/ out' # out /\ out'.session = s

\* session b has a turn: a search call of b is under way, or b has just got
\* the matches of one
HasTurn(b) ==
    \/ \E k \in DOMAIN searches : searches[k].pc # "idle" /\ searches[k].session = b
    \/ out.kind = "filter" /\ out.session = b

\* C9  Session isolation: a step of a call of one session leaves the
\* ConversationState of every other session that has a turn unchanged.
C9_SessionIsolation ==
    [][\A b \in Sessions :
          (HasTurn(b) /\ \E s \in Sessions \ {b} : ActsFor(s)) => store' = store]_vars

\* C10  Elimination filters: every match of a turn passes the level,
\* availability and location filters of the turn's effective requirements;
\* a candidate of the starting pool that passes them is in the narrowed pool
\* whatever skills it lacks.
PassesElimination(id, req) ==
    /\ req.experience_level # Null
          => ExperienceLevel(Candidate(id).experience_years) = req.experience_level
    /\ req.availability \notin {Null, "any"}
          => Candidate(id).availability \in {req.availability, "any"}
    /\ req.location # NoText => IsSubstring(req.location, Candidate(id).location)

C10_EliminationFilters ==
    out.kind = "filter" =>
        /\ \A id \in out.matches : PassesElimination(id, out.requirements)
        /\ \A id \in out.start_pool :
              PassesElimination(id, out.requirements) => id \in out.narrowed

C10_Witness ==
    /\ out.kind = "filter"
    /\ out.requirements.experience_level = "senior"
    /\ out.matches # {}
    /\ \E id \in out.start_pool \ out.narrowed :
          out.requirements.skills # {} /\ out.requirements.skills \subseteq Candidate(id).skills
    /\ \E id \in out.narrowed : ~(out.requirements.skills \subseteq Candidate(id).skills)

\* C11  Graceful extraction failure: a filter call with an empty or malformed
\* query is not an error; it appends the empty fragment, the effective
\* requirement set after the turn is the one the turn started with, and the
\* call returns matches of its starting pool for these requirements.
C11_GracefulExtraction ==
    [][\A k \in DOMAIN searches :
          /\ (Appends(k) /\ ExtractionDegraded(searches[k].query))
                => LET h == store.conversation_history
                       after == store'.conversation_history
                   IN  /\ after = Append(h, EmptyFragment)
                       /\ EffectiveRequirements(after) = EffectiveRequirements(h)
          /\ (Returns(k) /\ searches[k].degraded)
                => /\ out'.kind = "filter"
                   /\ out'.error = Null
                   /\ out'.narrowed = {id \in out'.start_pool :
                                          PassesElimination(id, out'.requirements)}
                   /\ out'.matches \subseteq out'.narrowed]_vars

C11_Witness ==
    /\ out.kind = "filter" /\ out.degraded /\ ~out.reset
    /\ out.turn = 2
    /\ out.requirements.skills = {"react"}
    /\ out.matches = {"c1", "c2", "c3"}
    /\ Len(store.conversation_history) = 2
    /\ store.conversation_history[2] = EmptyFragment

C13_PoolExhaustion ==
    out.kind = "filter" =>
        /\ out.narrowed = {} => (out.matches = {} /\ out.exhausted /\ out.error = Null)
        /\ (~out.reset /\ out.turn > 1 /\ out.prev_pool = {})
              => (out.start_pool = {} /\ out.matches = {} /\ out.exhausted)

\* C14  Experience level mapping: every non-negative number of years, whole
\* or not, maps to exactly one level: junior below 3, mid from 3 to 6, senior
\* from 7.
C14_ExperienceMapping ==
    levelOut.done =>
        /\ levelOut.level \in Levels
        /\ experience_years < Years(3) => levelOut.level = "junior"
        /\ (experience_years >= Years(3) /\ experience_years <= Years(6))
              => levelOut.level = "mid"
        /\ experience_years >= Years(7) => levelOut.level = "senior"

\* C15  UnknownSession: a reset or tenure call made before any session was
\* initialized returns the UnknownSession error and creates no
\* ConversationState: the state is as it was.
C15_UnknownSession ==
    [][\A s \in Sessions :
          (/\ searches' = searches
           /\ out'.session = s /\ out'.call \in {"reset", "tenure"}
           /\ ~store.loaded)
              => /\ out'.error = "UnknownSession"
                 /\ out'.kind = "error"
                 /\ store' = store]_vars

\* C16  Skill accumulation: the effective skill set of a turn is the union of
\* the skills of all fragments of the history, and a turn keeps every skill
\* the requirements held before it.
C16_SkillAccumulation ==
    [][\A k \in DOMAIN searches :
          LET before == store.conversation_history
              h == store'.conversation_history
          IN  /\ Combines(k) =>
                    searches'[k].requirements.skills =
                        UNION {h[i].skills : i \in DOMAIN h}
              /\ Appends(k) =>
                    EffectiveRequirements(before).skills
                        \subseteq EffectiveRequirements(h).skills]_vars

C16_Witness ==
    \E k \in DOMAIN searches :
        /\ searches[k].pc = "match" /\ ~searches[k].reset
        /\ searches[k].history_len = 3
        /\ searches[k].requirements.skills = {"react", "typescript"}
        /\ LET h == store.conversation_history
           IN  /\ Len(h) = 3
               /\ h[1].skills = {"react"}
               /\ h[2].skills = {}
               /\ h[3].skills = {"typescript"}

\* the candidate matches a required skill directly or transferably, or no
\* skill is required: its score is above the floor
HasSkillSignal(id, req) ==
    \/ req.skills = {}
    \/ \E r \in req.skills :
          \/ r \in Candidate(id).skills
          \/ \E m \in TransferabilityMap :
                m.required = r /\ m.has \in Candidate(id).skills

\* C17  Pool update: the pool a turn stores is exactly the candidates of the
\* turn's narrowed pool that scored above the floor; a candidate that scored
\* at or below the floor in an earlier turn is in no pool a later turn
\* without reset stores.
C17_PoolUpdate ==
    [][\A k \in DOMAIN searches :
          (Returns(k) /\ out'.kind = "filter") =>
              /\ store'.current_candidates = out'.matches
              /\ out'.matches =
                    {id \in out'.narrowed : HasSkillSignal(id, out'.requirements)}
              /\ (~out'.reset /\ out'.turn > 1) => out'.matches \cap floored = {}]_vars

\* the order of the AgentLoop states: TOOL_CALL only from REASON and back to
\* REASON, RESPOND only from REASON and on to AWAIT_INPUT
AgentStateOrder ==
    /\ (agent'.state = "TOOL_CALL" /\ agent.state # "TOOL_CALL") => agent.state = "REASON"
    /\ (agent.state = "TOOL_CALL" /\ agent'.state # "TOOL_CALL") => agent'.state = "REASON"
    /\ (agent'.state = "RESPOND" /\ agent.state # "RESPOND") => agent.state = "REASON"
    /\ (agent.state = "RESPOND" /\ agent'.state # "RESPOND") => agent'.state = "AWAIT_INPUT"
    /\ (agent'.state = "REASON" /\ agent.state # "REASON")
          => agent.state \in {"AWAIT_INPUT", "TOOL_CALL"}

\* C18  Per-turn progress: every message received leads to RESPOND and then
\* back to AWAIT_INPUT, whatever the model and the tools return, and the
\* states follow AWAIT_INPUT -> REASON -> (TOOL_CALL <-> REASON)* -> RESPOND
\* -> AWAIT_INPUT.
C18_TurnProgress ==
    /\ [][AgentStateOrder]_vars
    /\ (agent.state = "REASON") ~> (agent.state = "RESPOND")
    /\ (agent.state = "RESPOND") ~> (agent.state = "AWAIT_INPUT")

\* C19  Sequential turns per session: at most one turn of the conversation is
\* under way at any time; the chat page sends no request to /api/conversation
\* while an earlier one has not completed.
C19_SequentialTurns == Cardinality(InFlight) <= 1

\* C20  No partial state on failure: a turn that fails in a collaborator call
\* leaves the ConversationState of its session as it was before the turn:
\* the history and the pool are those the turn found.
C20_NoPartialState ==
    [][\A k \in DOMAIN searches :
          (Returns(k) /\ out'.kind = "failed")
              => /\ Len(store'.conversation_history) =
                    searches[k].history_len - 1
                 /\ store'.current_candidates =
                    searches[k].prev_pool]_vars

\* C22  Tenure score and label: the score lies in 0..100; the label is stable
\* exactly when score >= 80, moderate exactly when 60 <= score <= 79 and
\* high_risk exactly when score < 60; an ongoing role under 12 months that is
\* the only role is not penalised (the score stays at the base score 70).
C22_TenureScoreLabel ==
    tenureOut.done =>
        /\ tenureOut.score \in 0..100
        /\ tenureOut.label = "stable" <=> tenureOut.score >= 80
        /\ tenureOut.label = "moderate" <=> tenureOut.score \in 60..79
        /\ tenureOut.label = "high_risk" <=> tenureOut.score < 60
        /\ (/\ Len(work_history) = 1
            /\ work_history[1].ongoing
            /\ work_history[1].months < 12) => tenureOut.score = 70

\* C23  Pending reply on load: when the page loads a conversation whose last
\* message was sent by the user, with no AI reply after it, loadConversation
\* calls generateAIResponse for that message, whatever messages precede it.
C23_PendingReplyOnLoad ==
    [][(/\ ~conversation.loaded /\ conversation'.loaded
        /\ db[Len(db)].sender = "user")
          => /\ calls'[0].pc = "fetching"
             /\ calls'[0].message = db[Len(db)].n
             /\ isLoading']_vars

\* C24  One conversation per title: the conversations table holds at most one
\* row per (user_id, title), also when handleSendMessage calls overlap; a
\* call that ends on a row of the table ends on the row with its title.
C24_OneConversationPerTitle ==
    /\ \A i, j \in DOMAIN table :
          (table[i].user_id = table[j].user_id /\ table[i].title = table[j].title)
             => i = j
    /\ \A d \in DOMAIN dash :
          (dash[d].pc = "done" /\ dash[d].nav.id > 0)
             => /\ table[dash[d].nav.id].title = title(dash[d].message)
                /\ table[dash[d].nav.id].user_id = dash[d].user

\* the messages of the row before a write are the first messages after it
IsPrefix(a, b) == Len(a) <= Len(b) /\ SubSeq(b, 1, Len(a)) = a

\* C25  No lost messages: the messages of the conversation's row only grow by
\* appends; no write of the dashboard's handleSendMessage or of the chat
\* page's sendMessage and generateAIResponse drops a message of the row.
C25_NoLostMessages == [][IsPrefix(db, db')]_vars

\* C26  One reply per request: a call of generateAIResponse appends exactly
\* one 'ai' message (the reply or the fallback text) to the conversation when
\* its fetch settles, none afterwards, and isLoading is false when the call
\* finishes, also when the update of the row fails.
C26_OneReplyPerRequest ==
    [][\A c \in DOMAIN calls :
          /\ (calls[c].pc = "fetching" /\ calls'[c].pc = "persisting")
                => \E fallback \in BOOLEAN :
                      conversation'.messages =
                         Append(conversation.messages, AIMessage(calls[c].message, fallback))
          /\ (calls[c].pc = "persisting" /\ calls'[c].pc = "done")
                => /\ conversation' = conversation
                   /\ ~isLoading']_vars

\* every step's answer satisfies the step's canProceed condition
AllAnswered ==
    \A step \in 0..(totalSteps(form.component) - 1) :
        canProceed(form.component, step, form.data)

\* C27  Questionnaire completion: onComplete is invoked only at the last step
\* and only when the answer of every step satisfies that step's canProceed
\* condition, whatever the user edits and clicks.
C27_QuestionnaireCompletion ==
    [][form'.completions > form.completions
          => /\ form.currentStep = totalSteps(form.component) - 1
             /\ AllAnswered]_vars

C27_Witness ==
    /\ form.component = "CandidateQuestionnaire"
    /\ form.completions > 0
    /\ Len(form.data["workplace_values"]) = 1

\* C28  Questionnaire step bounds: currentStep stays within 0..totalSteps-1
\* under every sequence of handleNext and handleBack; handleNext at the last
\* step (when onComplete is called) and handleBack at step 0 leave it where
\* it is.
C28_StepBounds ==
    [][/\ form.currentStep \in 0..(totalSteps(form.component) - 1)
       /\ form'.currentStep \in 0..(totalSteps(form.component) - 1)
       /\ form'.completions > form.completions
             => /\ form.currentStep = totalSteps(form.component) - 1
                /\ form'.currentStep = form.currentStep
       /\ form.currentStep = 0 => form'.currentStep \in {0, 1}]_vars

C28_Witness ==
    /\ form.component = "CompanyQuestionnaire"
    /\ form.currentStep = COMPANY_TOTAL_STEPS - 1
    /\ form.completions > 0

\* no value is selected twice
NoDuplicates(values) == \A i, j \in DOMAIN values : values[i] = values[j] => i = j

Selected(values) == {values[i] : i \in DOMAIN values}

\* C29  Workplace values limit: workplace_values holds at most 3 values and no
\* duplicates after any toggleValue calls; a toggle either removes the
\* selected value or, with fewer than 3 selected, adds the unselected one:
\* with 3 selected, toggling an unselected value changes nothing.
C29_WorkplaceValuesLimit ==
    [][form.component = "CandidateQuestionnaire" =>
          LET current == form.data["workplace_values"]
              after == form'.data["workplace_values"]
          IN /\ Len(after) <= 3 /\ NoDuplicates(after)
             /\ after # current =>
                   \/ \E value \in Selected(current) :
                         /\ value \notin Selected(after)
                         /\ Selected(after) = Selected(current) \ {value}
                   \/ /\ Len(current) < 3
                      /\ \E value \in WorkplaceValues \ Selected(current) :
                            after = Append(current, value)]_vars

\* three values selected, the last button first: only toggles lead here
C29_Witness ==
    /\ form.component = "CandidateQuestionnaire"
    /\ Len(form.data["workplace_values"]) = 3
    /\ form.data["workplace_values"][1] = "Autonomy"

\* C30  Sign-in routing: after a successful signIn handleSubmit navigates to
\* /be-found when the user has a user_profiles row, otherwise to /find when
\* the user has a company_profiles row, otherwise it shows the role selection;
\* when signIn fails or returns no user it sets the error message, navigates
\* nowhere and creates no profile row.
C30_SignInRouting ==
    [][/\ (signin.pc # "submitted" /\ signin'.pc = "submitted")
            => /\ signin'.nav = "/be-found"
                   <=> signin'.userId \in profiles.user_profiles
               /\ signin'.nav = "/find"
                   <=> /\ signin'.userId \notin profiles.user_profiles
                       /\ signin'.userId \in profiles.company_profiles
               /\ signin'.showRoleSelection
                   <=> /\ signin'.userId \notin profiles.user_profiles
                       /\ signin'.userId \notin profiles.company_profiles
               /\ signin'.showRoleSelection <=> signin'.nav = "none"
               /\ profiles' = profiles
       /\ (signin.pc # "failed" /\ signin'.pc = "failed")
            => /\ signin'.error # ""
               /\ signin'.nav = "none"
               /\ ~signin'.showRoleSelection
               /\ profiles' = profiles]_vars

====
